---- MODULE Spec2Model ----
(***************************************************************************)
(* Model of the dynamic CRUD query-building core (CrudService and the      *)
(* collection controller): visible-column selection, recursive relation    *)
(* loading, query-parameter filtering, and the store / update / delete     *)
(* write path; with it the single-entity controller and the loader that    *)
(* builds the entity schemas at boot.                                      *)
(*                                                                         *)
(* Strings are TLA+ strings; Len, \o and SubSeq act on them character by   *)
(* character, so includes / replace / split are computed as the code does. *)
(***************************************************************************)
EXTENDS Integers, Sequences, FiniteSets, TLC

VARIABLES
    manifest,   \* the app manifest: className -> EntityManifest (immutable after boot)
    schemas,    \* the entity schemas built at boot (<<>> before they are)
    req,        \* the read request being served (endpoint, params, requester)
    res,        \* what the read handler built: outcome and the query
    db,         \* storage: className -> set of rows
    nextId,     \* storage: className -> next auto-increment id
    pc,         \* per request slot: position of its write handler
    op,         \* per request slot: the call (handler, entity, id, dto)
    loc,        \* per request slot: the handler's local variables
    resp,       \* per request slot: the response
    calls       \* write calls made so far

vars == <<manifest, schemas, req, res, db, nextId, pc, op, loc, resp, calls>>

readVars == <<req, res>>
writeVars == <<db, nextId, pc, op, loc, resp, calls>>

----------------------------------------------------------------------------
(* Bounds of the model.                                                    *)

\* Most properties an entity manifest declares.
MaxProps == 2
\* Most filter entries in one query string.
MaxFilters == 2
\* Frames the runtime allows loadRelations to nest before it fails the
\* request with a RangeError (the call stack is finite).
MaxCallDepth == 6

----------------------------------------------------------------------------
(* Strings and arrays.                                                     *)

\* String.prototype.includes
StrIncludes(s, sub) ==
    \E i \in 1..(Len(s) - Len(sub) + 1) : SubSeq(s, i, i + Len(sub) - 1) = sub

\* String.prototype.indexOf (1-based; 0 when absent)
StrIndexOf(s, sub) ==
    IF StrIncludes(s, sub)
    THEN CHOOSE i \in 1..(Len(s) - Len(sub) + 1) :
            /\ SubSeq(s, i, i + Len(sub) - 1) = sub
            /\ \A j \in 1..(i - 1) : SubSeq(s, j, j + Len(sub) - 1) # sub
    ELSE 0

\* String.prototype.replace with a string pattern: the first occurrence only.
StrReplace(s, sub, by) ==
    LET i == StrIndexOf(s, sub)
    IN  IF i = 0 THEN s
        ELSE SubSeq(s, 1, i - 1) \o by \o SubSeq(s, i + Len(sub), Len(s))

\* String.prototype.split with a one-character separator.
RECURSIVE StrSplit(_, _)
StrSplit(s, sep) ==
    LET i == StrIndexOf(s, sep)
    IN  IF i = 0 THEN <<s>>
        ELSE <<SubSeq(s, 1, i - 1)>> \o StrSplit(SubSeq(s, i + 1, Len(s)), sep)

\* Array.prototype.includes
ArrIncludes(arr, x) == \E i \in DOMAIN arr : arr[i] = x

\* Array.prototype.filter: keep[i] says whether the callback returned true for
\* arr[i]; the kept elements stay in order.
RECURSIVE ArrFilter(_, _)
ArrFilter(arr, keep) ==
    IF arr = <<>> THEN <<>>
    ELSE (IF Head(keep) THEN <<Head(arr)>> ELSE <<>>)
            \o ArrFilter(Tail(arr), Tail(keep))

\* Array.prototype.map
ArrMap(arr, F(_)) == [i \in DOMAIN arr |-> F(arr[i])]

\* Array.prototype.find: the first match, or Undefined.
Undefined == [undefined |-> TRUE]
ArrFind(arr, Test(_)) ==
    IF \E i \in DOMAIN arr : Test(arr[i])
    THEN arr[CHOOSE i \in DOMAIN arr :
                Test(arr[i]) /\ \A j \in 1..(i - 1) : ~Test(arr[j])]
    ELSE Undefined

Range(f) == {f[i] : i \in DOMAIN f}

----------------------------------------------------------------------------
(* The manifest model.                                                     *)

\* PropType values the model uses (of the fixed enumeration).
PropTypeString == "string"
PropTypeNumber == "number"
PropTypePassword == "password"
PropTypeBoolean == "boolean"

\* Every PropType of the model maps to one storage column type.
propTypeColumnTypes ==
    [t \in {PropTypeString, PropTypeNumber, PropTypePassword, PropTypeBoolean} |->
        CASE t = PropTypeString -> "varchar"
          [] t = PropTypeNumber -> "decimal"
          [] t = PropTypePassword -> "varchar"
          [] t = PropTypeBoolean -> "boolean"]

Prop(name, type, hidden, required) ==
    [name |-> name, type |-> type, hidden |-> hidden, required |-> required]

Rel(name, type, eager, entity) ==
    [name |-> name, type |-> type, eager |-> eager, owningSide |-> FALSE,
     entity |-> entity]

\* The properties a manifest of the model may declare.
PropPool ==
    << Prop("name", PropTypeString, FALSE, TRUE),
       Prop("age", PropTypeNumber, FALSE, FALSE),
       Prop("secret", PropTypeString, TRUE, FALSE),
       Prop("password", PropTypePassword, TRUE, FALSE),
       Prop("pin", PropTypePassword, FALSE, FALSE) >>

\* The elements of arr at the indexes in idx, in order.
RECURSIVE PickFrom(_, _, _)
PickFrom(arr, idx, i) ==
    IF i > Len(arr) THEN <<>>
    ELSE (IF i \in idx THEN <<arr[i]>> ELSE <<>>) \o PickFrom(arr, idx, i + 1)

\* Property lists of at most MaxProps properties with distinct names.
PropLists ==
    { PickFrom(PropPool, idx, 1) :
        idx \in {x \in SUBSET DOMAIN PropPool : Cardinality(x) <= MaxProps} }

\* The property list of the entities whose properties are not varied.
DefaultProps == PickFrom(PropPool, {1, 2, 3}, 1)

Entities == {"Cat", "Owner"}

EntityManifest(className, slug, props, rels, authenticable) ==
    [className |-> className, slug |-> slug, mainProp |-> "name",
     properties |-> props, relationships |-> rels,
     authenticable |-> authenticable, single |-> FALSE]

\* A Cat belongs to an Owner (many-to-one `owner`); an Owner has many Cats
\* (one-to-many `cats`): the cyclic relation graph Cat -> Owner -> Cat.
AppManifest(catProps, ownerProps, withRels, ownerEager, catsEager) ==
    [e \in Entities |->
        IF e = "Cat"
        THEN EntityManifest("Cat", "cats", catProps,
                IF withRels
                THEN <<Rel("owner", "many-to-one", ownerEager, "Owner")>>
                ELSE <<>>, FALSE)
        ELSE EntityManifest("Owner", "owners", ownerProps,
                IF withRels
                THEN <<Rel("cats", "one-to-many", catsEager, "Cat")>>
                ELSE <<>>, TRUE)]

\* A manifest in which Cat has, besides `owner`, a relation named as the path
\* owner then cats reads once camelized: `ownerCats` (the cats that share the
\* cat's owner).
SiblingsManifest ==
    [AppManifest(DefaultProps, DefaultProps, TRUE, FALSE, FALSE)
        EXCEPT !["Cat"].relationships =
            Append(@, Rel("ownerCats", "many-to-many", FALSE, "Cat"))]

\* The manifests of the model: every property list on either entity, every
\* eagerness of the two relations (none, one, or both: an eager cycle), and
\* two relations on one entity.
Manifests ==
    {AppManifest(pl, DefaultProps, TRUE, TRUE, FALSE) : pl \in PropLists}
    \cup {AppManifest(DefaultProps, pl, TRUE, TRUE, FALSE) : pl \in PropLists}
    \cup {AppManifest(DefaultProps, DefaultProps, TRUE, oe, ce) :
            oe \in BOOLEAN, ce \in BOOLEAN}
    \cup {AppManifest(DefaultProps, DefaultProps, FALSE, FALSE, FALSE)}
    \cup {SiblingsManifest}

\* ManifestService.getEntityManifest({ slug }): the manifest of the slug.
getEntityManifestBySlug(m, slug) ==
    m[CHOOSE e \in DOMAIN m : m[e].slug = slug]

\* ManifestService.getEntityManifest({ className })
getEntityManifest(m, className) == m[className]

\* EntityMetadata.relations: the relations registered for the entity's schema,
\* one per relationship of its manifest.
MetadataRelations(m, className) ==
    [i \in DOMAIN m[className].relationships |->
        [propertyName |-> m[className].relationships[i].name,
         inverseEntityMetadata |->
            [targetName |-> m[className].relationships[i].entity]]]

----------------------------------------------------------------------------
(* EntityLoaderService: the schemas built from the manifest at boot.       *)

\* A column of a schema.
ColumnOptions(name, type, nullable, primary) ==
    [name |-> name, type |-> type, nullable |-> nullable, primary |-> primary]

\* The base templates: a plain entity gets id and the timestamps, an
\* authenticable one email and password besides.
baseEntity ==
    ("id" :> ColumnOptions("id", "int", FALSE, TRUE))
    @@ ("createdAt" :> ColumnOptions("createdAt", "date", FALSE, FALSE))
    @@ ("updatedAt" :> ColumnOptions("updatedAt", "date", FALSE, FALSE))

baseAuthenticableEntity ==
    baseEntity
    @@ ("email" :> ColumnOptions("email", "varchar", FALSE, FALSE))
    @@ ("password" :> ColumnOptions("password", "varchar", FALSE, FALSE))

\* loadEntities, the reduce over the properties from property i on:
\* acc[propManifest.name] = { name, type, nullable: true }.
RECURSIVE ReduceColumns(_, _, _)
ReduceColumns(properties, acc, i) ==
    IF i > Len(properties) THEN acc
    ELSE ReduceColumns(properties,
            (properties[i].name :>
                ColumnOptions(properties[i].name,
                              propTypeColumnTypes[properties[i].type], TRUE, FALSE))
            @@ acc,
            i + 1)

\* loadEntities: the schema of one entity manifest. relations holds the names
\* of the relations of the entity.
EntitySchema(entityManifest) ==
    [name |-> entityManifest.className,
     columns |-> ReduceColumns(entityManifest.properties,
                    IF entityManifest.authenticable
                    THEN baseAuthenticableEntity ELSE baseEntity, 1),
     relations |-> [i \in DOMAIN entityManifest.relationships |->
                        entityManifest.relationships[i].name],
     uniques |-> IF entityManifest.authenticable
                 THEN <<[columns |-> <<"email">>]>> ELSE <<>>]

\* ManifestService.getEntityManifests(): the entity manifests as a list.
getEntityManifests(m) == <<m["Cat"], m["Owner"]>>

\* EntityLoaderService.loadEntities()
loadEntities(entityManifests) ==
    [i \in DOMAIN entityManifests |-> EntitySchema(entityManifests[i])]

\* The properties a manifest handed to the loader may declare: those of the
\* pool, and properties named as a base column is.
LoaderPropPool ==
    PropPool \o << Prop("id", PropTypeString, FALSE, FALSE),
                   Prop("email", PropTypeString, FALSE, TRUE) >>

LoaderPropLists ==
    { PickFrom(LoaderPropPool, idx, 1) :
        idx \in {x \in SUBSET DOMAIN LoaderPropPool : Cardinality(x) <= MaxProps} }

\* The manifests the loader model boots on: every property list on Cat, plain
\* and authenticable, next to an authenticable Owner.
LoaderManifests ==
    { [AppManifest(pl, DefaultProps, TRUE, FALSE, FALSE)
            EXCEPT !["Cat"].authenticable = a] :
        pl \in LoaderPropLists, a \in BOOLEAN }

\* helpers camelize([alias, name]): the words joined, each word after the
\* first capitalised.
LowerCase == "abcdefghijklmnopqrstuvwxyz"
UpperCase == "ABCDEFGHIJKLMNOPQRSTUVWXYZ"
Capitalize(s) ==
    IF s = "" THEN s
    ELSE LET i == StrIndexOf(LowerCase, SubSeq(s, 1, 1))
         IN  IF i = 0 THEN s
             ELSE SubSeq(UpperCase, i, i) \o SubSeq(s, 2, Len(s))

RECURSIVE camelize(_)
camelize(words) ==
    IF Len(words) = 0 THEN ""
    ELSE IF Len(words) = 1 THEN words[1]
    ELSE camelize(SubSeq(words, 1, Len(words) - 1))
            \o Capitalize(words[Len(words)])

----------------------------------------------------------------------------
(* The query builder (SelectQueryBuilder) as the handlers use it.          *)

\* createQueryBuilder(alias): nothing selected, joined or restricted yet.
\* calls and overflow are bookkeeping of loadRelations: the frames it opened
\* and whether the call stack ran out.
createQueryBuilder ==
    [select |-> <<>>, joins |-> <<>>, wheres |-> <<>>,
     parameters |-> <<>>, orderBy |-> <<>>,
     calls |-> <<>>, overflow |-> FALSE]

\* query.select(columns): replaces the selection.
QuerySelect(q, columns) == [q EXCEPT !.select = columns]

\* query.addSelect(columns): adds to the selection.
QueryAddSelect(q, columns) == [q EXCEPT !.select = @ \o columns]

\* query.leftJoin(`${alias}.${property}`, aliasName); call is the frame of
\* loadRelations that added the join.
QueryLeftJoin(q, path, aliasName, call) ==
    [q EXCEPT !.joins = Append(@, [path |-> path, alias |-> aliasName,
                                   call |-> call])]

\* query.where(condition, parameters): sets the WHERE condition, overriding
\* any condition set before, and merges the parameters by name.
QueryWhere(q, condition, params) ==
    [q EXCEPT !.wheres = <<condition>>,
              !.parameters = params @@ @]

\* query.orderBy(sort, order): sets the ordering.
QueryOrderBy(q, sort, order) ==
    [q EXCEPT !.orderBy = <<[sort |-> sort, order |-> order]>>]

----------------------------------------------------------------------------
(* CrudService: the read path.                                             *)

\* getVisibleProps: the filter chain deciding whether a property is selected.
\* Faulty variants of the visibility test: one that drops the test on the
\* name, one that drops the test on hidden.
IsVisibleProp_NoNameCheck(prop, fullVersion) == fullVersion \/ ~prop.hidden
IsVisibleProp_IgnoresHidden(prop, fullVersion) == prop.name # "password"

IsVisibleProp(prop, fullVersion) ==
    /\ prop.name # "password"
    /\ (fullVersion \/ ~prop.hidden)

\* getVisibleProps({ props, alias, fullVersion }): id first, then one column
\* `${alias}.${prop.name}` per visible property.
getVisibleProps(props, alias, fullVersion) ==
    <<alias \o ".id">>
        \o ArrMap(ArrFilter(props,
                        [i \in DOMAIN props |-> IsVisibleProp(props[i], fullVersion)]),
                  LAMBDA prop : alias \o "." \o prop.name)

\* loadRelations: "Only eager or requested relations are loaded."
IsLoaded(relationshipManifest, requestedRelations, propertyName) ==
    relationshipManifest.eager \/ ArrIncludes(requestedRelations, propertyName)

\* Faulty variant of the pruning: the current relation is removed but the
\* remaining entries keep their prefix.
PruneRequested_NoStrip(requestedRelations, propertyName) ==
    ArrFilter(requestedRelations,
        [i \in DOMAIN requestedRelations |-> requestedRelations[i] # propertyName])

\* loadRelations: the requested relations handed to the recursive call: the
\* current relation removed, then the first occurrence of `${propertyName}.`
\* removed from each remaining entry.
PruneRequested(requestedRelations, propertyName) ==
    ArrMap(ArrFilter(requestedRelations,
                [i \in DOMAIN requestedRelations |->
                    requestedRelations[i] # propertyName]),
           LAMBDA requestedRelation :
                StrReplace(requestedRelation, propertyName \o ".", ""))

\* loadRelations({ query, entityMetadata, relationships, requestedRelations,
\* alias }), the forEach from relation i on. An absent relations parameter
\* (undefined) behaves as the empty list: nothing is included in it and its
\* pruning is again undefined. depth is the nesting of the call and parent the
\* frame that made it (0 for the handler).
RECURSIVE loadRelationsFrom(_, _, _, _, _, _, _, _)
loadRelationsFrom(m, q, className, requestedRelations, alias, depth, self, i) ==
    LET relations == MetadataRelations(m, className)
        relationships == getEntityManifest(m, className).relationships
    IN  IF q.overflow \/ i > Len(relations) THEN q
        ELSE
        LET relationMetadata == relations[i]
            propertyName == relationMetadata.propertyName
            relationshipManifest ==
                ArrFind(relationships, LAMBDA r : r.name = propertyName)
        IN  IF ~IsLoaded(relationshipManifest, requestedRelations, propertyName)
            THEN loadRelationsFrom(m, q, className, requestedRelations, alias,
                                   depth, self, i + 1)
            ELSE
            LET aliasName == camelize(<<alias, propertyName>>)
                target == relationMetadata.inverseEntityMetadata.targetName
                relationEntityManifest == getEntityManifest(m, target)
                q1 == QueryAddSelect(
                        QueryLeftJoin(q, alias \o "." \o propertyName,
                                      aliasName, self),
                        getVisibleProps(relationEntityManifest.properties,
                                        aliasName, FALSE))
                pruned == PruneRequested(requestedRelations, propertyName)
                q2 == IF Len(MetadataRelations(m, target)) = 0 THEN q1
                      ELSE IF depth + 1 > MaxCallDepth
                      THEN [q1 EXCEPT !.overflow = TRUE]
                      ELSE LET frame == [entity |-> target,
                                         requested |-> pruned,
                                         alias |-> aliasName,
                                         depth |-> depth + 1,
                                         parent |-> self]
                               q1c == [q1 EXCEPT !.calls = Append(@, frame)]
                           IN  loadRelationsFrom(m, q1c, target, pruned,
                                                 aliasName, depth + 1,
                                                 Len(q1c.calls), 1)
            IN  loadRelationsFrom(m, q2, className, requestedRelations, alias,
                                  depth, self, i + 1)

\* loadRelations as the handlers call it: alias 'entity', the whole list.
loadRelations(m, q, className, requestedRelations) ==
    LET frame == [entity |-> className, requested |-> requestedRelations,
                  alias |-> "entity", depth |-> 0, parent |-> 0]
        q0 == [q EXCEPT !.calls = Append(@, frame)]
    IN  loadRelationsFrom(m, q0, className, requestedRelations, "entity", 0,
                          Len(q0.calls), 1)

----------------------------------------------------------------------------
(* Query parameters and filters.                                           *)

\* Query parameters arrive as an object; its entries in insertion order are a
\* sequence of [key, value] with distinct keys.
Entry(key, value) == [key |-> key, value |-> value]
HasParam(queryParams, key) == \E i \in DOMAIN queryParams : queryParams[i].key = key
ParamValue(queryParams, key) ==
    queryParams[CHOOSE i \in DOMAIN queryParams : queryParams[i].key = key].value

QUERY_PARAMS_RESERVED_WORDS == <<"page", "perPage", "orderBy", "order", "relations">>

\* Object.values(WhereKeySuffix), in declaration order.
WhereKeySuffix == <<"_eq", "_gt", "_gte", "_lt", "_lte", "_ne", "_like", "_in">>

\* whereOperatorKeySuffix: operator -> key suffix.
whereOperatorKeySuffix ==
    [o \in {"=", ">", ">=", "<", "<=", "!=", "like", "in"} |->
        CASE o = "=" -> "_eq" [] o = ">" -> "_gt" [] o = ">=" -> "_gte"
          [] o = "<" -> "_lt" [] o = "<=" -> "_lte" [] o = "!=" -> "_ne"
          [] o = "like" -> "_like" [] o = "in" -> "_in"]

\* helpers getRecordKeyByValue(record, value)
getRecordKeyByValue(record, value) ==
    CHOOSE k \in DOMAIN record : record[k] = value

\* Array.prototype.reverse
Reverse(arr) == [i \in DOMAIN arr |-> arr[Len(arr) + 1 - i]]

\* filterQuery: whether the key matches the suffix.
KeyMatchesSuffix(key, suffix) == StrIncludes(key, suffix)

\* Faulty variant of the suffix search: the suffix list is not reversed.
FindSuffix_Unreversed(key) ==
    LET candidates == WhereKeySuffix
    IN  IF \E i \in DOMAIN candidates : KeyMatchesSuffix(key, candidates[i])
        THEN candidates[CHOOSE i \in DOMAIN candidates :
                /\ KeyMatchesSuffix(key, candidates[i])
                /\ \A j \in 1..(i - 1) : ~KeyMatchesSuffix(key, candidates[j])]
        ELSE ""

\* filterQuery: the suffix found for the key: the first of the reversed suffix
\* list that matches, or "" for none (undefined).
FindSuffix(key) ==
    LET candidates == Reverse(WhereKeySuffix)
    IN  IF \E i \in DOMAIN candidates : KeyMatchesSuffix(key, candidates[i])
        THEN candidates[CHOOSE i \in DOMAIN candidates :
                /\ KeyMatchesSuffix(key, candidates[i])
                /\ \A j \in 1..(i - 1) : ~KeyMatchesSuffix(key, candidates[j])]
        ELSE ""

\* filterQuery: the property name of a key, given its suffix.
PropNameOf(key, suffix) == StrReplace(key, suffix, "")

Digits == "0123456789"
IsDigit(c) == StrIncludes(Digits, c)
DigitValue(c) == StrIndexOf(Digits, c) - 1

\* The number a string of digits denotes.
RECURSIVE NumOf(_)
NumOf(s) ==
    IF s = "" THEN 0
    ELSE 10 * NumOf(SubSeq(s, 1, Len(s) - 1)) + DigitValue(SubSeq(s, Len(s), Len(s)))

IsNumeral(s) == s # "" /\ \A i \in 1..Len(s) : IsDigit(SubSeq(s, i, i))

\* JSON.parse(`[${value}]`) on the values of the model (digits, commas and
\* letters): a list of numerals parses; anything else is a SyntaxError.
JsonListParses(value) ==
    value = "" \/ \A x \in Range(StrSplit(value, ",")) : IsNumeral(x)
JsonList(value) ==
    IF value = "" THEN <<>> ELSE StrSplit(value, ",")

\* filterQuery: the where call for one accepted entry.
AddFilterWhere(q, whereKey, operator, value) ==
    IF operator = "in"
    THEN QueryWhere(q, [key |-> whereKey, operator |-> operator,
                        placeholder |-> "(:...value)"],
                    "value" :> JsonList(value))
    ELSE QueryWhere(q, [key |-> whereKey, operator |-> operator,
                        placeholder |-> ":value"],
                    "value" :> <<value>>)

\* filterQuery: one pass of the forEach body; error is "" when none is thrown.
FilterEntry(q, entityManifest, key, value) ==
    LET suffix == FindSuffix(key)
    IN  IF suffix = "" THEN [q |-> q, error |-> "BadRequest"]
        ELSE
        LET operator == getRecordKeyByValue(whereOperatorKeySuffix, suffix)
            propName == PropNameOf(key, suffix)
            prop == ArrFind(entityManifest.properties,
                            LAMBDA x : x.name = propName /\ ~x.hidden)
            relation == ArrFind(entityManifest.relationships,
                                LAMBDA r : r.name = StrSplit(propName, ".")[1])
        IN  IF prop = Undefined /\ relation = Undefined
            THEN [q |-> q, error |-> "BadRequest"]
            ELSE
            LET parts == StrSplit(propName, ".")
                whereKey ==
                    IF relation # Undefined
                    THEN camelize(<<"entity", relation.name>>) \o "."
                            \o (IF Len(parts) >= 2 THEN parts[2] ELSE "undefined")
                    ELSE "entity." \o propName
                \* "true" and "false" stand for 1 and 0 on boolean props.
                v == IF prop # Undefined /\ prop.type = PropTypeBoolean
                     THEN (IF value = "true" THEN "1"
                           ELSE IF value = "false" THEN "0" ELSE value)
                     ELSE value
            IN  IF operator = "in" /\ ~JsonListParses(v)
                THEN [q |-> q, error |-> "SyntaxError"]
                ELSE [q |-> AddFilterWhere(q, whereKey, operator, v),
                      error |-> ""]

\* filterQuery({ query, queryParams, entityManifest }): the entries that are
\* not reserved words, in order, until one throws.
RECURSIVE filterQueryFrom(_, _, _, _)
filterQueryFrom(q, queryParams, entityManifest, i) ==
    IF i > Len(queryParams) THEN [q |-> q, error |-> ""]
    ELSE IF ArrIncludes(QUERY_PARAMS_RESERVED_WORDS, queryParams[i].key)
    THEN filterQueryFrom(q, queryParams, entityManifest, i + 1)
    ELSE LET r == FilterEntry(q, entityManifest, queryParams[i].key,
                              queryParams[i].value)
         IN  IF r.error # "" THEN r
             ELSE filterQueryFrom(r.q, queryParams, entityManifest, i + 1)

filterQuery(q, queryParams, entityManifest) ==
    filterQueryFrom(q, queryParams, entityManifest, 1)

----------------------------------------------------------------------------
(* findAll and findOne.                                                    *)

\* parseInt(s, 10) on the strings of the model: an optional minus sign, then
\* the leading digits; NaN when there is none.
RECURSIVE LeadingDigits(_)
LeadingDigits(s) ==
    IF s = "" \/ ~IsDigit(SubSeq(s, 1, 1)) THEN ""
    ELSE SubSeq(s, 1, 1) \o LeadingDigits(SubSeq(s, 2, Len(s)))

parseInt(s) ==
    LET neg == s # "" /\ SubSeq(s, 1, 1) = "-"
        body == IF neg THEN SubSeq(s, 2, Len(s)) ELSE s
        ds == LeadingDigits(body)
    IN  IF ds = "" THEN [nan |-> TRUE, val |-> 0]
        ELSE [nan |-> FALSE, val |-> IF neg THEN 0 - NumOf(ds) ELSE NumOf(ds)]

\* parseInt(queryParams[key], 10) || fallback: NaN and 0 are falsy.
ParseIntOr(queryParams, key, fallback) ==
    LET n == IF HasParam(queryParams, key)
             THEN parseInt(ParamValue(queryParams, key))
             ELSE [nan |-> TRUE, val |-> 0]
    IN  IF n.nan \/ n.val = 0 THEN fallback ELSE n.val

DEFAULT_RESULTS_PER_PAGE == 20

\* queryParams?.relations?.toString().split(',')
RequestedRelations(queryParams) ==
    IF HasParam(queryParams, "relations")
    THEN StrSplit(ParamValue(queryParams, "relations"), ",")
    ELSE <<>>

NoPage == [currentPage |-> 0, resultsPerPage |-> 0]

\* Faulty variant of the orderBy test: hidden properties pass.
IsOrderable_IgnoresHidden(entityManifest, orderBy) ==
    ArrFind(entityManifest.properties, LAMBDA x : x.name = orderBy) # Undefined

\* findAll: whether orderBy names a property the list can be ordered by.
IsOrderable(entityManifest, orderBy) ==
    ArrFind(entityManifest.properties,
            LAMBDA x : x.name = orderBy /\ ~x.hidden) # Undefined

\* findAll: the ordering step, on a query whose filters were accepted.
ApplyOrdering(q, queryParams, entityManifest) ==
    IF HasParam(queryParams, "orderBy") /\ ParamValue(queryParams, "orderBy") # ""
    THEN LET orderBy == ParamValue(queryParams, "orderBy")
         IN  IF ~IsOrderable(entityManifest, orderBy)
             THEN [q |-> q, error |-> "BadRequest"]
             ELSE [q |-> QueryOrderBy(q, "entity." \o orderBy,
                            IF HasParam(queryParams, "order")
                               /\ ParamValue(queryParams, "order") = "DESC"
                            THEN "DESC" ELSE "ASC"),
                   error |-> ""]
    ELSE [q |-> QueryOrderBy(q, "entity.id", "DESC"), error |-> ""]

\* findAll({ entitySlug, queryParams, fullVersion }): the query it builds and
\* how it ends: "ok" (the query goes to paginate) or the error thrown.
findAll(m, entitySlug, queryParams, fullVersion) ==
    LET entityManifest == getEntityManifestBySlug(m, entitySlug)
        q1 == QuerySelect(createQueryBuilder,
                getVisibleProps(entityManifest.properties, "entity", fullVersion))
        q2 == loadRelations(m, q1, entityManifest.className,
                            RequestedRelations(queryParams))
    IN  IF q2.overflow
        THEN [outcome |-> "RangeError", query |-> q2, page |-> NoPage]
        ELSE
        LET f == filterQuery(q2, queryParams, entityManifest)
        IN  IF f.error # ""
            THEN [outcome |-> f.error, query |-> f.q, page |-> NoPage]
            ELSE
            LET o == ApplyOrdering(f.q, queryParams, entityManifest)
            IN  IF o.error # ""
                THEN [outcome |-> o.error, query |-> o.q, page |-> NoPage]
                ELSE [outcome |-> "ok", query |-> o.q,
                      page |-> [currentPage |-> ParseIntOr(queryParams, "page", 1),
                                resultsPerPage |->
                                    ParseIntOr(queryParams, "perPage",
                                               DEFAULT_RESULTS_PER_PAGE)]]

\* findOne({ entitySlug, id, queryParams, fullVersion }): found says whether
\* the query's getOne returns an item.
findOne(m, entitySlug, id, queryParams, fullVersion, found) ==
    LET entityManifest == getEntityManifestBySlug(m, entitySlug)
        q1 == QueryWhere(
                QuerySelect(createQueryBuilder,
                    getVisibleProps(entityManifest.properties, "entity", fullVersion)),
                [key |-> "entity.id", operator |-> "=", placeholder |-> ":id"],
                "id" :> <<id>>)
        q2 == loadRelations(m, q1, entityManifest.className,
                            RequestedRelations(queryParams))
    IN  IF q2.overflow
        THEN [outcome |-> "RangeError", query |-> q2, page |-> NoPage]
        ELSE IF ~found
        THEN [outcome |-> "NotFound", query |-> q2, page |-> NoPage]
        ELSE [outcome |-> "ok", query |-> q2, page |-> NoPage]

----------------------------------------------------------------------------
(* The requests of the read model.                                         *)

Slugs == {"cats", "owners"}

\* Values of the relations parameter: none, single names, dotted paths alone
\* and with their prefixes, names of the other entity's relation, an entry
\* holding `owner.` in its middle, a path together with a relation named as the
\* path camelized.
RelationParams ==
    { <<>>,
      <<Entry("relations", "owner")>>,
      <<Entry("relations", "owner.cats")>>,
      <<Entry("relations", "owner,owner.cats")>>,
      <<Entry("relations", "owner,owner.cats,owner.cats.owner")>>,
      <<Entry("relations", "cats")>>,
      <<Entry("relations", "cats,cats.owner")>>,
      <<Entry("relations", "owner,cats")>>,
      <<Entry("relations", "owner,cowner.ats")>>,
      <<Entry("relations", "owner,owner.cats,ownerCats")>> }

\* Filter entries: well-formed keys, keys whose suffix holds a shorter one, a
\* key holding a suffix in its middle, a key with no suffix, hidden and unknown
\* properties, relation paths, in-lists well and ill formed.
FilterPool ==
    { Entry("age_gte", "2"), Entry("age_lt", "5"), Entry("name_eq", "Tom"),
      Entry("na_eqme", "Tom"), Entry("age", "2"), Entry("secret_eq", "x"),
      Entry("owner.name_eq", "Ann"),
      Entry("age_lte", "5"), Entry("nope_eq", "x"),
      Entry("owner.secret_eq", "x"), Entry("owner.nope_eq", "x"),
      Entry("age_in", "1,2"), Entry("age_in", "1,x"), Entry("age_in", "1,") }

\* The entries that query strings of several filters are made of.
FilterComboPool ==
    { e \in FilterPool :
        e.key \in {"age_gte", "age_lt", "name_eq", "na_eqme", "secret_eq"} }

\* Query strings of filter entries on distinct keys: one entry of the pool, or
\* 2..MaxFilters entries of the combination pool.
FilterParams ==
    { <<e>> : e \in FilterPool }
    \cup
    UNION { { f \in [1..n -> FilterComboPool] :
                \A i, j \in 1..n : i # j => f[i].key # f[j].key } :
            n \in 2..MaxFilters }

OrderParams ==
    { <<Entry("orderBy", "age")>>,
      <<Entry("orderBy", "age"), Entry("order", "DESC")>>,
      <<Entry("orderBy", "secret")>>,
      <<Entry("orderBy", "nope")>>,
      <<Entry("orderBy", "")>> }

PageParams ==
    { <<Entry("page", "2")>>, <<Entry("page", "0")>>, <<Entry("page", "-1")>>,
      <<Entry("page", "x")>>, <<Entry("perPage", "5")>>,
      <<Entry("page", "3"), Entry("perPage", "x")>> }

QueryParams == RelationParams \cup FilterParams \cup OrderParams \cup PageParams

NoQuery == [outcome |-> "none", query |-> createQueryBuilder, page |-> NoPage]

NoReq ==
    [endpoint |-> "none", entitySlug |-> "", id |-> 0, queryParams |-> <<>>,
     isAdmin |-> FALSE, fullVersion |-> FALSE]

\* Object.assign({}, queryParams, { perPage: -1 })
WithPerPageAll(queryParams) ==
    IF HasParam(queryParams, "perPage")
    THEN [i \in DOMAIN queryParams |->
            IF queryParams[i].key = "perPage" THEN Entry("perPage", "-1")
            ELSE queryParams[i]]
    ELSE Append(queryParams, Entry("perPage", "-1"))

\* The ids a request names: one of a seeded row, one of a row a store may add.
RequestIds == {1, 2}

\* Whether storage holds a row of the entity with the id.
RowExists(d, className, id) == \E row \in d[className] : row.id = id

\* The read model serves one request at a time: a handler runs when no
\* request is being served, and Respond hands its result back.
Idle == req.endpoint = "none"

Respond ==
    /\ ~Idle
    /\ req' = NoReq
    /\ res' = NoQuery
    /\ UNCHANGED <<manifest, schemas, writeVars>>

\* CollectionController.findAll: fullVersion is whether the requester is admin.
ControllerFullVersion(isAdmin) == isAdmin

\* GET /collections/:entity
CollectionFindAll ==
    \E entitySlug \in Slugs, queryParams \in QueryParams, isAdmin \in BOOLEAN :
        LET fullVersion == ControllerFullVersion(isAdmin)
        IN  /\ Idle
            /\ req' = [endpoint |-> "findAll", entitySlug |-> entitySlug, id |-> 0,
                       queryParams |-> queryParams, isAdmin |-> isAdmin,
                       fullVersion |-> fullVersion]
            /\ res' = findAll(manifest, entitySlug, queryParams, fullVersion)
            /\ UNCHANGED <<manifest, schemas, writeVars>>

\* GET /collections/:entity/select-options: findAll with perPage -1 and no
\* fullVersion (undefined).
CollectionFindSelectOptions ==
    \E entitySlug \in Slugs, queryParams \in PageParams \cup OrderParams,
       isAdmin \in BOOLEAN :
        /\ Idle
        /\ req' = [endpoint |-> "findSelectOptions", entitySlug |-> entitySlug,
                   id |-> 0, queryParams |-> WithPerPageAll(queryParams),
                   isAdmin |-> isAdmin, fullVersion |-> FALSE]
        /\ res' = findAll(manifest, entitySlug, WithPerPageAll(queryParams), FALSE)
        /\ UNCHANGED <<manifest, schemas, writeVars>>

\* GET /collections/:entity/:id
CollectionFindOne ==
    \E entitySlug \in Slugs, id \in RequestIds, queryParams \in RelationParams,
       isAdmin \in BOOLEAN :
        LET fullVersion == ControllerFullVersion(isAdmin)
            className == getEntityManifestBySlug(manifest, entitySlug).className
        IN  /\ Idle
            /\ req' = [endpoint |-> "findOne", entitySlug |-> entitySlug, id |-> id,
                       queryParams |-> queryParams, isAdmin |-> isAdmin,
                       fullVersion |-> fullVersion]
            /\ res' = findOne(manifest, entitySlug, id, queryParams, fullVersion,
                              RowExists(db, className, id))
            /\ UNCHANGED <<manifest, schemas, writeVars>>

----------------------------------------------------------------------------
(* Storage and the write path.                                             *)

\* Most rows an entity's table holds.
MaxRows == 2
\* Most write calls (store, update, delete) made in one run.
MaxCalls == 2

\* The two request slots: handlers of different requests interleave at their
\* awaits.
Procs == {"r1", "r2"}

\* A column with no value.
Null == "NULL"

\* A row: its id, its property columns f (every property of the entity), and
\* the foreign key owner of its many-to-one relation (0: none).
Row(id, f, owner) == [id |-> id, f |-> f, owner |-> owner]

\* The manifest the write model runs on: Cat (name required, age; belongs to
\* an Owner) and Owner (authenticable: name required, password; has many Cats).
CrudManifest ==
    AppManifest(
        <<Prop("name", PropTypeString, FALSE, TRUE),
          Prop("age", PropTypeNumber, FALSE, FALSE)>>,
        <<Prop("name", PropTypeString, FALSE, TRUE),
          Prop("password", PropTypePassword, TRUE, FALSE)>>,
        TRUE, FALSE, FALSE)

PropNames(m, className) ==
    {m[className].properties[i].name : i \in DOMAIN m[className].properties}

\* SHA3(password).toString()
SHA3(s) == "sha3:" \o s

EmptyDb == [e \in Entities |-> {}]

\* One owner with one cat.
SeededDb ==
    [e \in Entities |->
        IF e = "Owner"
        THEN {Row(1, [name |-> "Ann", password |-> SHA3("pw")], 0)}
        ELSE {Row(1, [name |-> "Tom", age |-> "3"], 1)}]

\* A dto: the property keys it carries (f), the id key (0: absent) and the id
\* given for the many-to-one relation (0: absent).
Dto(f, id, owner) == [f |-> f, id |-> id, owner |-> owner]

\* The functions from a subset of the keys to values taken from vals[key].
PartialRecords(keys, vals) ==
    UNION { [ks -> UNION {vals[k] : k \in ks}] : ks \in SUBSET keys }

DtoValues(className) ==
    IF className = "Cat" THEN [name |-> {"Kit", ""}, age |-> {"3"}]
    ELSE [name |-> {"Ann", ""}, password |-> {"pw", ""}]

DtoFields(className) ==
    LET vals == DtoValues(className)
    IN  { g \in PartialRecords(DOMAIN vals, vals) :
            \A k \in DOMAIN g : g[k] \in vals[k] }

\* The bodies that carry an id key of their own: the request body reaches the
\* service as it was sent, so a dto may name an id besides the one of the URL.
DtoIds == {2}
IdDtoFields(className) ==
    IF className = "Cat" THEN {[name |-> "Kit"]} ELSE {[name |-> "Ann"]}

Dtos(className) ==
    { Dto(g, 0, o) : g \in DtoFields(className),
                     o \in IF className = "Cat" THEN {0, 1} ELSE {0} }
    \cup { Dto(g, id, 0) : g \in IdDtoFields(className), id \in DtoIds }

\* ValidationService.validate(item, entityManifest, { isUpdate }): one error
\* per required property the item gives no value for.
validate(item, entityManifest, isUpdate) ==
    LET props == entityManifest.properties
        missing == [i \in DOMAIN props |->
                        /\ props[i].required
                        /\ \/ props[i].name \notin DOMAIN item.f
                           \/ item.f[props[i].name] \in {Null, ""}]
    IN  ArrMap(ArrFilter(props, missing),
               LAMBDA x : [property |-> x.name, constraints |-> "required"])

\* RelationshipService.fetchRelationItemsFromDto(itemDto, relationships): for
\* each given relationship the dto names an id for, the stored item of that id
\* (0 when there is none). The model's only many-to-one relation is owner.
fetchRelationItemsFromDto(d, itemDto, relationships) ==
    IF \E i \in DOMAIN relationships : relationships[i].name = "owner"
    THEN IF itemDto.owner # 0 /\ RowExists(d, "Owner", itemDto.owner)
         THEN [given |-> TRUE, owner |-> itemDto.owner]
         ELSE [given |-> itemDto.owner # 0, owner |-> 0]
    ELSE [given |-> FALSE, owner |-> 0]

\* store / update: the relationships whose items are fetched from the dto.
WritableRelationships(entityManifest) ==
    LET rels == entityManifest.relationships
    IN  ArrFilter(rels,
            [i \in DOMAIN rels |->
                /\ rels[i].type # "one-to-many"
                /\ (rels[i].type # "many-to-many" \/ rels[i].owningSide)])

\* Faulty variant: validation errors never reject.
RejectsOnErrors_Never(errors) == FALSE

\* store / update: `if (errors.length) throw`.
RejectsOnErrors(errors) == Len(errors) > 0

\* Faulty variant of the merge: the item's values win over the dto's.
MergeDto_ItemWins(item, itemDto) == item.f @@ itemDto.f

\* update: entityRepository.create({ ...item, ...itemDto }), the property keys.
MergeDto(item, itemDto) == itemDto.f @@ item.f

\* Faulty variant of the password step: the candidate is left as it is.
HashPassword_Plain(f, entityManifest, itemDto, isUpdate) == f

\* store / update: the password step, on the candidate's property keys.
HashPassword(f, entityManifest, itemDto, isUpdate) ==
    IF entityManifest.authenticable
       /\ "password" \in DOMAIN itemDto.f /\ itemDto.f["password"] # ""
    THEN [f EXCEPT !["password"] = SHA3(@)]
    ELSE IF isUpdate /\ entityManifest.authenticable
    THEN [k \in DOMAIN f \ {"password"} |-> f[k]]
    ELSE f

\* Repository.save(entity): updates the row of the entity's id when there is
\* one, else inserts (with the next id when the entity has none). Only the
\* keys the entity carries are written; an inserted row's other columns are
\* Null.
SaveRow(d, ids, m, className, item, relationItems) ==
    LET existing == {row \in d[className] : item.id # 0 /\ row.id = item.id}
        id == IF item.id # 0 THEN item.id ELSE ids[className]
        old == IF existing # {} THEN CHOOSE row \in existing : TRUE
               ELSE Row(id, [k \in PropNames(m, className) |-> Null], 0)
        new == Row(id, item.f @@ old.f,
                   IF relationItems.given THEN relationItems.owner
                   ELSE old.owner)
    IN  [db |-> [d EXCEPT ![className] = (@ \ existing) \cup {new}],
         nextId |-> IF existing = {} /\ id >= ids[className]
                    THEN [ids EXCEPT ![className] = id + 1] ELSE ids,
         item |-> new]

\* delete: the items related to the item through a one-to-many relationship:
\* the rows of the related entity whose foreign key is the item's id.
RelatedItems(d, relationship, id) ==
    {row \in d[relationship.entity] : row.owner = id}

\* delete: the one-to-many relationships of the entity.
OneToManyRelationships(entityManifest) ==
    LET rels == entityManifest.relationships
    IN  ArrFilter(rels, [i \in DOMAIN rels |-> rels[i].type = "one-to-many"])

\* Faulty variants: related items never block the delete; the delete is
\* blocked whatever the related items.
BlocksDelete_Never(relatedItems) == FALSE
BlocksDelete_Always(relatedItems) == TRUE

\* delete: `if (relatedItems.length) throw`.
BlocksDelete(relatedItems) == Cardinality(relatedItems) > 0

----------------------------------------------------------------------------
(* The write handlers, one action per stretch between awaits.              *)

NoRow == Row(0, [k \in {} |-> Null], 0)
NoRelationItems == [given |-> FALSE, owner |-> 0]

\* A handler's locals; wrote records whether the call has written to storage,
\* thrown the error a service call made by a controller threw ("": none),
\* isAdmin what authService.isReqUserAdmin answered.
NoLoc ==
    [item |-> NoRow, found |-> FALSE, related |-> {},
     relationItems |-> NoRelationItems, toSave |-> NoRow,
     errors |-> <<>>, wrote |-> FALSE, thrown |-> "", isAdmin |-> FALSE]

NoOp == [handler |-> "none", entitySlug |-> "", id |-> 0, dto |-> Dto([k \in {} |-> Null], 0, 0)]
NoResp == [status |-> "none", errors |-> <<>>, item |-> NoRow]

Free(p) == pc[p] \in {"idle", "done"} /\ calls < MaxCalls
ClassOf(entitySlug) == getEntityManifestBySlug(manifest, entitySlug).className
LoadRow(d, className, id) == CHOOSE row \in d[className] : row.id = id

\* store, up to the save: the candidate is built, the relation items are
\* fetched, the password is hashed and the candidate validated.
StoreBegin(p) ==
    \E entitySlug \in Slugs :
    \E itemDto \in Dtos(ClassOf(entitySlug)) :
        LET entityManifest == getEntityManifestBySlug(manifest, entitySlug)
            relationItems ==
                fetchRelationItemsFromDto(db, itemDto,
                    WritableRelationships(entityManifest))
            newItem == Row(itemDto.id,
                           HashPassword(itemDto.f, entityManifest, itemDto, FALSE), 0)
            errors == validate(newItem, entityManifest, FALSE)
        IN  /\ Free(p)
            /\ calls' = calls + 1
            /\ op' = [op EXCEPT ![p] = [handler |-> "store", entitySlug |-> entitySlug,
                                        id |-> 0, dto |-> itemDto]]
            /\ loc' = [loc EXCEPT ![p] = [NoLoc EXCEPT !.relationItems = relationItems,
                                                       !.toSave = newItem,
                                                       !.errors = errors]]
            /\ IF RejectsOnErrors(errors)
               THEN /\ resp' = [resp EXCEPT ![p] = [status |-> "BadRequest",
                                                    errors |-> errors, item |-> NoRow]]
                    /\ pc' = [pc EXCEPT ![p] = "done"]
               ELSE /\ resp' = [resp EXCEPT ![p] = NoResp]
                    /\ pc' = [pc EXCEPT ![p] = "store_save"]
            /\ UNCHANGED <<manifest, schemas, readVars, db, nextId>>

\* store and update: entityRepository.save({ ...item, ...relationItems }).
Save(p) ==
    /\ pc[p] \in {"store_save", "update_save"}
    /\ \/ loc[p].toSave.id # 0
       \/ nextId[ClassOf(op[p].entitySlug)] <= MaxRows
    /\ LET s == SaveRow(db, nextId, manifest, ClassOf(op[p].entitySlug),
                        loc[p].toSave, loc[p].relationItems)
       IN  /\ db' = s.db
           /\ nextId' = s.nextId
           /\ resp' = [resp EXCEPT ![p] = [status |-> "ok", errors |-> <<>>,
                                           item |-> s.item]]
    /\ loc' = [loc EXCEPT ![p].wrote = TRUE]
    /\ pc' = [pc EXCEPT ![p] = "done"]
    /\ UNCHANGED <<manifest, schemas, readVars, op, calls>>

\* update, first await: entityRepository.findOne({ where: { id } }).
UpdateBegin(p) ==
    \E entitySlug \in Slugs, id \in RequestIds :
    \E itemDto \in Dtos(ClassOf(entitySlug)) :
        LET className == ClassOf(entitySlug)
            found == RowExists(db, className, id)
        IN  /\ Free(p)
            /\ calls' = calls + 1
            /\ op' = [op EXCEPT ![p] = [handler |-> "update", entitySlug |-> entitySlug,
                                        id |-> id, dto |-> itemDto]]
            /\ loc' = [loc EXCEPT ![p] =
                        [NoLoc EXCEPT !.found = found,
                                      !.item = IF found THEN LoadRow(db, className, id)
                                               ELSE NoRow]]
            /\ resp' = [resp EXCEPT ![p] = NoResp]
            /\ pc' = [pc EXCEPT ![p] = "update_fetch"]
            /\ UNCHANGED <<manifest, schemas, readVars, db, nextId>>

\* update, second await and on to the save: the relation items are fetched,
\* then NotFound, the merge, the password step and validation.
UpdateFetch(p) ==
    LET entityManifest == getEntityManifestBySlug(manifest, op[p].entitySlug)
        itemDto == op[p].dto
        item == loc[p].item
        relationItems ==
            fetchRelationItemsFromDto(db, itemDto,
                WritableRelationships(entityManifest))
        updatedItem ==
            Row(IF itemDto.id # 0 THEN itemDto.id ELSE item.id,
                HashPassword(MergeDto(item, itemDto), entityManifest, itemDto, TRUE),
                item.owner)
        errors == validate(updatedItem, entityManifest, TRUE)
    IN  /\ pc[p] = "update_fetch"
        /\ IF ~loc[p].found
           THEN /\ resp' = [resp EXCEPT ![p] = [status |-> "NotFound",
                                                errors |-> <<>>, item |-> NoRow]]
                /\ loc' = [loc EXCEPT ![p].relationItems = relationItems]
                /\ pc' = [pc EXCEPT ![p] = "done"]
           ELSE /\ loc' = [loc EXCEPT ![p].relationItems = relationItems,
                                      ![p].toSave = updatedItem,
                                      ![p].errors = errors]
                /\ IF RejectsOnErrors(errors)
                   THEN /\ resp' = [resp EXCEPT ![p] = [status |-> "BadRequest",
                                                        errors |-> errors,
                                                        item |-> NoRow]]
                        /\ pc' = [pc EXCEPT ![p] = "done"]
                   ELSE /\ resp' = resp
                        /\ pc' = [pc EXCEPT ![p] = "update_save"]
        /\ UNCHANGED <<manifest, schemas, readVars, db, nextId, op, calls>>

\* delete, up to the delete statement: the item is loaded with its one-to-many
\* relations, then NotFound and the related-items check.
DeleteBegin(p) ==
    \E entitySlug \in Slugs, id \in RequestIds :
        LET entityManifest == getEntityManifestBySlug(manifest, entitySlug)
            className == entityManifest.className
            oneToMany == OneToManyRelationships(entityManifest)
            found == RowExists(db, className, id)
            related == UNION {RelatedItems(db, oneToMany[i], id) : i \in DOMAIN oneToMany}
            blocked == \E i \in DOMAIN oneToMany :
                            BlocksDelete(RelatedItems(db, oneToMany[i], id))
        IN  /\ Free(p)
            /\ calls' = calls + 1
            /\ op' = [op EXCEPT ![p] = [handler |-> "delete", entitySlug |-> entitySlug,
                                        id |-> id, dto |-> NoOp.dto]]
            /\ loc' = [loc EXCEPT ![p] =
                        [NoLoc EXCEPT !.found = found,
                                      !.item = IF found THEN LoadRow(db, className, id)
                                               ELSE NoRow,
                                      !.related = IF found THEN related ELSE {}]]
            /\ IF ~found
               THEN /\ resp' = [resp EXCEPT ![p] = [status |-> "NotFound",
                                                    errors |-> <<>>, item |-> NoRow]]
                    /\ pc' = [pc EXCEPT ![p] = "done"]
               ELSE IF blocked
               THEN /\ resp' = [resp EXCEPT ![p] = [status |-> "BadRequest",
                                                    errors |-> <<>>, item |-> NoRow]]
                    /\ pc' = [pc EXCEPT ![p] = "done"]
               ELSE /\ resp' = [resp EXCEPT ![p] = NoResp]
                    /\ pc' = [pc EXCEPT ![p] = "delete_exec"]
            /\ UNCHANGED <<manifest, schemas, readVars, db, nextId>>

\* delete: entityRepository.delete(id).
DeleteExec(p) ==
    /\ pc[p] = "delete_exec"
    /\ db' = [db EXCEPT ![ClassOf(op[p].entitySlug)] =
                {row \in @ : row.id # op[p].id}]
    /\ resp' = [resp EXCEPT ![p] = [status |-> "ok", errors |-> <<>>,
                                    item |-> loc[p].item]]
    /\ loc' = [loc EXCEPT ![p].wrote = TRUE]
    /\ pc' = [pc EXCEPT ![p] = "done"]
    /\ UNCHANGED <<manifest, schemas, readVars, nextId, op, calls>>

----------------------------------------------------------------------------
(* The single-entity controller.                                           *)

\* The manifests the single model runs on: Cat is a single entity, without
\* relations, with lazy relations, and within a cycle of eager relations.
SingleManifests ==
    { [m EXCEPT !["Cat"].single = TRUE] :
        m \in { AppManifest(DefaultProps, DefaultProps, FALSE, FALSE, FALSE),
                AppManifest(DefaultProps, DefaultProps, TRUE, FALSE, FALSE),
                AppManifest(DefaultProps, DefaultProps, TRUE, TRUE, TRUE) } }

SingleSlugs == {"cats"}

\* The row storeEmpty adds: entityRepository.save({}), an insert with the next
\* id and no value in any column.
StoreEmptyRow(m, ids, className) ==
    Row(ids[className], [k \in PropNames(m, className) |-> Null], 0)

\* The catch of SingleController.findOne: whether the error caught leads to
\* storeEmpty.
CatchStoresEmpty(e) == e = "NotFound"

\* GET /singles/:entity, first await: authService.isReqUserAdmin(req).
SingleBegin(p) ==
    \E entitySlug \in SingleSlugs, isAdmin \in BOOLEAN :
        /\ Free(p)
        /\ calls' = calls + 1
        /\ op' = [op EXCEPT ![p] = [handler |-> "singleFindOne",
                                    entitySlug |-> entitySlug, id |-> 1,
                                    dto |-> NoOp.dto]]
        /\ loc' = [loc EXCEPT ![p] = [NoLoc EXCEPT !.isAdmin = isAdmin]]
        /\ resp' = [resp EXCEPT ![p] = NoResp]
        /\ pc' = [pc EXCEPT ![p] = "single_find"]
        /\ UNCHANGED <<manifest, schemas, readVars, db, nextId>>

\* GET /singles/:entity, second await: crudService.findOne({ entitySlug, id: 1,
\* fullVersion: isAdmin }) and the catch. The storage call of findOne either
\* answers or fails (QueryFailedError).
SingleFindOne(p) ==
    \E fails \in BOOLEAN :
        LET className == ClassOf(op[p].entitySlug)
            found == RowExists(db, className, 1)
            r == findOne(manifest, op[p].entitySlug, 1, <<>>, loc[p].isAdmin, found)
            outcome == IF r.outcome # "RangeError" /\ fails
                       THEN "QueryFailedError" ELSE r.outcome
        IN  /\ pc[p] = "single_find"
            /\ IF outcome = "ok"
               THEN /\ loc' = [loc EXCEPT ![p].found = TRUE,
                                          ![p].item = LoadRow(db, className, 1)]
                    /\ resp' = [resp EXCEPT ![p] =
                                    [status |-> "ok", errors |-> <<>>,
                                     item |-> LoadRow(db, className, 1)]]
                    /\ pc' = [pc EXCEPT ![p] = "done"]
               ELSE /\ loc' = [loc EXCEPT ![p].found = FALSE,
                                          ![p].thrown = outcome]
                    /\ IF CatchStoresEmpty(outcome)
                       THEN /\ resp' = resp
                            /\ pc' = [pc EXCEPT ![p] = "single_store"]
                       ELSE \* the catch ends; singleItem is returned unset
                            /\ resp' = [resp EXCEPT ![p] =
                                        [status |-> "ok", errors |-> <<>>,
                                         item |-> NoRow]]
                            /\ pc' = [pc EXCEPT ![p] = "done"]
            /\ UNCHANGED <<manifest, schemas, readVars, db, nextId, op, calls>>

\* GET /singles/:entity, third await: crudService.storeEmpty(entitySlug).
SingleStoreEmpty(p) ==
    LET className == ClassOf(op[p].entitySlug)
        row == StoreEmptyRow(manifest, nextId, className)
    IN  /\ pc[p] = "single_store"
        /\ db' = [db EXCEPT ![className] = @ \cup {row}]
        /\ nextId' = [nextId EXCEPT ![className] = @ + 1]
        /\ resp' = [resp EXCEPT ![p] = [status |-> "ok", errors |-> <<>>,
                                        item |-> row]]
        /\ loc' = [loc EXCEPT ![p].wrote = TRUE]
        /\ pc' = [pc EXCEPT ![p] = "done"]
        /\ UNCHANGED <<manifest, schemas, readVars, op, calls>>

----------------------------------------------------------------------------
(* Specifications.                                                         *)

InitWrite(d) ==
    /\ db = d
    /\ nextId = [e \in Entities |-> Cardinality(d[e]) + 1]
    /\ pc = [p \in Procs |-> "idle"]
    /\ op = [p \in Procs |-> NoOp]
    /\ loc = [p \in Procs |-> NoLoc]
    /\ resp = [p \in Procs |-> NoResp]
    /\ calls = 0

\* The read model: any manifest of the model, over a seeded storage.
Init ==
    /\ manifest \in Manifests
    /\ schemas = loadEntities(getEntityManifests(manifest))
    /\ req = NoReq
    /\ res = NoQuery
    /\ InitWrite(SeededDb)

Next ==
    \/ CollectionFindAll
    \/ CollectionFindSelectOptions
    \/ CollectionFindOne
    \/ Respond

Spec == Init /\ [][Next]_vars

\* The write model: concurrent store, update and delete on one manifest.
InitCrud ==
    /\ manifest = CrudManifest
    /\ schemas = loadEntities(getEntityManifests(manifest))
    /\ req = NoReq
    /\ res = NoQuery
    /\ \E d \in {EmptyDb, SeededDb} : InitWrite(d)

NextCrud ==
    \E p \in Procs :
        \/ StoreBegin(p)
        \/ Save(p)
        \/ UpdateBegin(p)
        \/ UpdateFetch(p)
        \/ DeleteBegin(p)
        \/ DeleteExec(p)

SpecCrud == InitCrud /\ [][NextCrud]_vars

\* One owner that has no cat.
LoneOwnerDb ==
    [e \in Entities |->
        IF e = "Owner"
        THEN {Row(1, [name |-> "Ann", password |-> SHA3("pw")], 0)}
        ELSE {}]

\* The write model over a parent that has no child yet: a delete of the owner
\* can pass its related-items check while a request attaches a cat to it.
InitCrudLone ==
    /\ manifest = CrudManifest
    /\ schemas = loadEntities(getEntityManifests(manifest))
    /\ req = NoReq
    /\ res = NoQuery
    /\ InitWrite(LoneOwnerDb)

SpecCrudLone == InitCrudLone /\ [][NextCrud]_vars

\* The boot model: the loader builds the schemas of a manifest.
NotLoaded == <<>>

LoadEntities ==
    /\ schemas = NotLoaded
    /\ schemas' = loadEntities(getEntityManifests(manifest))
    /\ UNCHANGED <<manifest, readVars, writeVars>>

InitLoader ==
    /\ manifest \in LoaderManifests
    /\ schemas = NotLoaded
    /\ req = NoReq
    /\ res = NoQuery
    /\ InitWrite(EmptyDb)

NextLoader == LoadEntities

SpecLoader == InitLoader /\ [][NextLoader]_vars

\* The single model: concurrent GET /singles/:entity on a table that has no
\* row yet.
InitSingle ==
    /\ manifest \in SingleManifests
    /\ schemas = loadEntities(getEntityManifests(manifest))
    /\ req = NoReq
    /\ res = NoQuery
    /\ InitWrite(EmptyDb)

NextSingle ==
    \E p \in Procs :
        \/ SingleBegin(p)
        \/ SingleFindOne(p)
        \/ SingleStoreEmpty(p)

SpecSingle == InitSingle /\ [][NextSingle]_vars

----------------------------------------------------------------------------
(* What a built query returns, and what a filter entry asks for.           *)

\* Largest age of a row the filters are evaluated on.
MaxAge == 6

\* Rows of the root table a list query is evaluated on.
RowUniverse ==
    { [name |-> n, age |-> SubSeq(Digits, a + 1, a + 1), secret |-> "x"] :
        n \in {"Tom", "Kit"}, a \in 0..MaxAge }

\* SQL comparison of a column value with a bound parameter: numeric when both
\* are numerals, else on the text.
Compare(operator, x, vs) ==
    LET num == IsNumeral(x) /\ \A i \in DOMAIN vs : IsNumeral(vs[i])
        lt(a, b) == num /\ NumOf(a) < NumOf(b)
        eq(a, b) == IF num THEN NumOf(a) = NumOf(b) ELSE a = b
    IN  CASE operator = "in" -> \E i \in DOMAIN vs : eq(x, vs[i])
          [] operator \in {"=", "like"} -> eq(x, vs[1])
          [] operator = "!=" -> ~eq(x, vs[1])
          [] operator = "<" -> lt(x, vs[1])
          [] operator = "<=" -> lt(x, vs[1]) \/ eq(x, vs[1])
          [] operator = ">" -> lt(vs[1], x)
          [] operator = ">=" -> lt(vs[1], x) \/ eq(x, vs[1])

\* The name a placeholder binds: ":value" and "(:...value)" bind value.
PlaceholderName(placeholder) ==
    IF StrIncludes(placeholder, "...")
    THEN SubSeq(placeholder, 6, Len(placeholder) - 1)
    ELSE SubSeq(placeholder, 2, Len(placeholder))

\* Whether a root row passes the query's WHERE: every condition set, each
\* with the parameter bound under its placeholder's name. (Conditions on the
\* root alias only.)
QueryReturns(q, row) ==
    \A i \in DOMAIN q.wheres :
        LET parts == StrSplit(q.wheres[i].key, ".")
        IN  /\ parts[1] = "entity"
            /\ parts[2] \in DOMAIN row
            /\ Compare(q.wheres[i].operator, row[parts[2]],
                       q.parameters[PlaceholderName(q.wheres[i].placeholder)])

\* String.prototype.endsWith
EndsWith(s, sub) ==
    Len(sub) <= Len(s) /\ SubSeq(s, Len(s) - Len(sub) + 1, Len(s)) = sub

\* The suffixes a key ends in.
TrailingSuffixes(key) == {x \in Range(WhereKeySuffix) : EndsWith(key, x)}

\* The longest suffix the key ends in.
TrailingSuffix(key) ==
    CHOOSE x \in TrailingSuffixes(key) :
        \A y \in TrailingSuffixes(key) : Len(y) <= Len(x)

\* The key without its trailing suffix.
StripTrailing(key) == SubSeq(key, 1, Len(key) - Len(TrailingSuffix(key)))

\* The filter entries of a query string: those whose key is no reserved word.
FilterEntries(queryParams) ==
    ArrFilter(queryParams,
        [i \in DOMAIN queryParams |->
            ~ArrIncludes(QUERY_PARAMS_RESERVED_WORDS, queryParams[i].key)])

\* Whether the entry is a well-formed filter on a column of the rows.
IsRowFilter(entry) ==
    /\ TrailingSuffixes(entry.key) # {}
    /\ StripTrailing(entry.key) \in {"name", "age"}

\* Whether the row satisfies what the entry asks for.
RowSatisfies(row, entry) ==
    LET operator == getRecordKeyByValue(whereOperatorKeySuffix,
                                        TrailingSuffix(entry.key))
    IN  Compare(operator, row[StripTrailing(entry.key)],
                IF operator = "in" THEN JsonList(entry.value) ELSE <<entry.value>>)

Served == req.endpoint # "none"
ReadCompleted == Served /\ res.outcome # "RangeError"
RootManifest == getEntityManifestBySlug(manifest, req.entitySlug)
Selected == Range(res.query.select)

----------------------------------------------------------------------------
(* Claims.                                                                 *)

\* C1: a findAll carrying two or more filters on different keys returns a row
\* only if the row satisfies every one of the filters.
C1_FiltersAreConjoined ==
    LET filters == FilterEntries(req.queryParams)
    IN  ( /\ req.endpoint = "findAll"
          /\ res.outcome = "ok"
          /\ Len(filters) >= 2
          /\ \A i \in DOMAIN filters : IsRowFilter(filters[i]) )
        => \A row \in RowUniverse :
                QueryReturns(res.query, row)
                    => \A i \in DOMAIN filters : RowSatisfies(row, filters[i])

\* The column of a property under an alias, as the query selects it.
Column(alias, name) == alias \o "." \o name

\* The property name a selected column ends in.
ColumnProperty(column) ==
    LET parts == StrSplit(column, ".") IN parts[Len(parts)]

\* The alias a selected column is under.
ColumnAlias(column) == StrSplit(column, ".")[1]

HiddenProps(entityManifest) ==
    {x \in Range(entityManifest.properties) : x.hidden}

JoinPaths(q) == [i \in DOMAIN q.joins |-> q.joins[i].path]

\* The entity a join leads to: the target of the relation of its frame.
JoinTarget(q, j) ==
    LET owner == getEntityManifest(manifest, q.calls[j.call].entity)
        name == ColumnProperty(j.path)
    IN  ArrFind(owner.relationships, LAMBDA r : r.name = name).entity

\* C4: the columns selected by findAll and findOne, for the root entity and
\* for every joined relation, hold no column of a property named password.
C4_NoPasswordNamedColumn ==
    Served => \A column \in Selected : ColumnProperty(column) # "password"

\* C4 witness: an admin read (fullVersion) of an entity that declares a
\* property named password, with a relation joined, has built its selection.
C4_Witness ==
    /\ req.endpoint \in {"findAll", "findOne"}
    /\ res.outcome = "ok"
    /\ req.fullVersion
    /\ \E x \in Range(RootManifest.properties) : x.name = "password"
    /\ Len(res.query.joins) > 0
    /\ Cardinality(Selected) > 2

\* C5 as stated: on findAll and findOne the root selection holds a hidden
\* property exactly when fullVersion is true, and fullVersion is whether the
\* requester is admin.
C5_HiddenIffFullVersion ==
    (req.endpoint \in {"findAll", "findOne"})
        => /\ req.fullVersion = req.isAdmin
           /\ \A x \in HiddenProps(RootManifest) :
                (Column("entity", x.name) \in Selected) <=> req.fullVersion

\* C5 amended: on findAll and findOne the root selection holds a hidden
\* property other than one named password (or id) exactly when fullVersion is
\* true, and fullVersion is whether the requester is admin.
C5_HiddenIffFullVersionExceptPassword ==
    (req.endpoint \in {"findAll", "findOne"})
        => /\ req.fullVersion = req.isAdmin
           /\ \A x \in HiddenProps(RootManifest) :
                x.name \notin {"password", "id"}
                    => ((Column("entity", x.name) \in Selected) <=> req.fullVersion)

\* C5 witness: an admin's list read selected a hidden property of the root.
C5_Witness ==
    /\ req.endpoint = "findAll"
    /\ req.isAdmin
    /\ res.outcome = "ok"
    /\ \E x \in HiddenProps(RootManifest) :
            x.name # "password" /\ Column("entity", x.name) \in Selected

\* C6: no column of a property whose type is Password is selected by a read,
\* on the root entity or on a joined one, whatever its name and fullVersion.
C6_NoPasswordTypedColumn ==
    Served =>
        /\ \A x \in Range(RootManifest.properties) :
                x.type = PropTypePassword
                    => Column("entity", x.name) \notin Selected
        /\ \A i \in DOMAIN res.query.joins :
            \A x \in Range(getEntityManifest(manifest,
                                JoinTarget(res.query, res.query.joins[i])).properties) :
                x.type = PropTypePassword
                    => Column(res.query.joins[i].alias, x.name) \notin Selected

\* Whether frame a of the query is one that frame c is nested in.
RECURSIVE IsAncestor(_, _, _)
IsAncestor(q, a, c) ==
    /\ q.calls[c].parent # 0
    /\ (q.calls[c].parent = a \/ IsAncestor(q, a, q.calls[c].parent))

\* C7: loadRelations terminates for every relation graph and every requested
\* list: no call repeats the entity and requested list of a call it is nested
\* in (which would recurse forever), and no read ends with the call stack
\* exhausted.
C7_LoadRelationsTerminates ==
    Served =>
        /\ res.outcome # "RangeError"
        /\ \A a, c \in DOMAIN res.query.calls :
                IsAncestor(res.query, a, c)
                    => ~ /\ res.query.calls[a].entity = res.query.calls[c].entity
                         /\ res.query.calls[a].requested = res.query.calls[c].requested

\* The non-eager cyclic graph Cat -> Owner -> Cat.
NonEagerCycle ==
    /\ Len(manifest["Cat"].relationships) = 1
    /\ ~manifest["Cat"].relationships[1].eager
    /\ ~manifest["Owner"].relationships[1].eager

ReadOfCatWith(relations) ==
    /\ req.endpoint \in {"findAll", "findOne"}
    /\ req.entitySlug = "cats"
    /\ req.queryParams = <<Entry("relations", relations)>>
    /\ res.outcome \in {"ok", "NotFound"}

\* C8 as stated: on the non-eager cycle, a read of Cat with relations equal to
\* the single dotted path owner.cats joins owner and, under it, cats, once.
C8_SinglePathJoinsBothLevels ==
    (NonEagerCycle /\ ReadOfCatWith("owner.cats"))
        => JoinPaths(res.query) = <<"entity.owner", "entityOwner.cats">>

\* C8 amended: on the non-eager cycle, a read of Cat with relations listing the
\* dotted path together with its prefix (owner,owner.cats) joins owner and,
\* under it, cats, exactly once each, and nothing further.
C8_PathWithPrefixJoinsBothLevels ==
    (NonEagerCycle /\ ReadOfCatWith("owner,owner.cats"))
        => JoinPaths(res.query) = <<"entity.owner", "entityOwner.cats">>

\* C8 witness: such a read has joined two levels.
C8_Witness ==
    /\ NonEagerCycle
    /\ ReadOfCatWith("owner,owner.cats")
    /\ Len(res.query.joins) = 2

\* The requested list a frame is due under pruning by prefix: the handler's
\* list at the root, else the parent's list without the relation traversed and
\* with `relation.` taken off the front of the entries that start with it.
StartsWith(s, sub) == Len(sub) <= Len(s) /\ SubSeq(s, 1, Len(sub)) = sub

PrefixPruned(requested, name) ==
    ArrMap(ArrFilter(requested, [i \in DOMAIN requested |-> requested[i] # name]),
           LAMBDA r : IF StartsWith(r, name \o ".")
                      THEN SubSeq(r, Len(name) + 2, Len(r))
                      ELSE r)

\* The relation whose join opened frame c.
FrameRelation(q, c) ==
    LET j == CHOOSE i \in DOMAIN q.joins :
                /\ q.joins[i].call = q.calls[c].parent
                /\ q.joins[i].alias = q.calls[c].alias
    IN  ColumnProperty(q.joins[j].path)

RECURSIVE RequestedAt(_, _)
RequestedAt(q, c) ==
    IF q.calls[c].parent = 0 THEN q.calls[c].requested
    ELSE PrefixPruned(RequestedAt(q, q.calls[c].parent), FrameRelation(q, c))

\* C9: at every depth a relation is joined if and only if it is eager or named
\* in the requested list as pruned for that depth; every join is one of these,
\* and every selected column is the root's or one of a joined alias.
C9_JoinedIffEagerOrRequested ==
    ReadCompleted =>
        LET q == res.query
        IN  /\ \A c \in DOMAIN q.calls :
                \A r \in Range(getEntityManifest(manifest, q.calls[c].entity).relationships) :
                    (\E i \in DOMAIN q.joins :
                        /\ q.joins[i].call = c
                        /\ q.joins[i].path = Column(q.calls[c].alias, r.name))
                    <=> (r.eager \/ ArrIncludes(RequestedAt(q, c), r.name))
            /\ \A i \in DOMAIN q.joins :
                \E r \in Range(getEntityManifest(manifest,
                                    q.calls[q.joins[i].call].entity).relationships) :
                    q.joins[i].path = Column(q.calls[q.joins[i].call].alias, r.name)
            /\ \A column \in Selected :
                ColumnAlias(column) \in
                    {"entity"} \cup {q.joins[i].alias : i \in DOMAIN q.joins}

\* C10: findAll accepts a filter key only when an operator suffix ends the
\* key, and the property filtered on is the key without that trailing suffix.
C10_AcceptedKeysEndInSuffix ==
    LET filters == FilterEntries(req.queryParams)
    IN  (req.endpoint = "findAll" /\ res.outcome = "ok" /\ Len(filters) > 0)
        => /\ \A i \in DOMAIN filters : TrailingSuffixes(filters[i].key) # {}
           /\ LET last == filters[Len(filters)].key
                  parts == StrSplit(StripTrailing(last), ".")
              IN  res.query.wheres[1].key =
                    IF Len(parts) > 1
                    THEN Column(camelize(<<"entity", parts[1]>>), parts[2])
                    ELSE Column("entity", parts[1])

\* C2: a delete of an existing item that has at least one related item in a
\* one-to-many relation ends in BadRequest, and the call writes nothing.
C2_DeleteBlockedByRelatedItems ==
    \A p \in Procs :
        (op[p].handler = "delete" /\ loc[p].found /\ loc[p].related # {})
            => /\ pc[p] = "done"
               /\ resp[p].status = "BadRequest"
               /\ ~loc[p].wrote

\* C2 witness: a delete found its item with a related item and has ended.
C2_Witness ==
    \E p \in Procs :
        /\ op[p].handler = "delete"
        /\ loc[p].found
        /\ loc[p].related # {}
        /\ pc[p] = "done"

\* C3: in store and in update, a non-empty validation result ends the call in
\* a BadRequest carrying that list with nothing written, and a store and an
\* update of the same invalid candidate end in the same response.
C3_ValidationBeforeWrite ==
    /\ \A p \in Procs :
        (op[p].handler \in {"store", "update"} /\ Len(loc[p].errors) > 0)
            => /\ pc[p] = "done"
               /\ resp[p] = [status |-> "BadRequest", errors |-> loc[p].errors,
                             item |-> NoRow]
               /\ ~loc[p].wrote
    /\ \A p, q \in Procs :
        ( /\ op[p].handler = "store" /\ op[q].handler = "update"
          /\ pc[p] = "done" /\ pc[q] = "done" /\ loc[q].found
          /\ Len(loc[p].errors) > 0
          /\ loc[p].toSave.f = loc[q].toSave.f )
            => resp[p] = resp[q]

\* C3 witness: a store and an update of the same invalid candidate have both
\* ended.
C3_Witness ==
    \E p, q \in Procs :
        /\ op[p].handler = "store" /\ op[q].handler = "update"
        /\ pc[p] = "done" /\ pc[q] = "done"
        /\ Len(loc[p].errors) > 0 /\ Len(loc[q].errors) > 0
        /\ loc[p].toSave.f = loc[q].toSave.f

\* The suffixes that match a key one inside the other: <<shorter, longer>>.
NestedMatches(key) ==
    { st \in Range(WhereKeySuffix) \X Range(WhereKeySuffix) :
        /\ st[1] # st[2]
        /\ StrIncludes(st[2], st[1])
        /\ StrIncludes(key, st[1])
        /\ StrIncludes(key, st[2]) }

\* A list read whose only filter is on a key that two nested suffixes match,
\* the longer one ending the key after the name of a visible root property.
NestedSuffixRead(st) ==
    LET filters == FilterEntries(req.queryParams)
    IN  /\ req.endpoint = "findAll"
        /\ res.outcome # "RangeError"
        /\ Len(filters) = 1
        /\ st \in NestedMatches(filters[1].key)
        /\ EndsWith(filters[1].key, st[2])
        /\ \E x \in Range(RootManifest.properties) :
                ~x.hidden /\ filters[1].key = x.name \o st[2]

\* C11: when two suffixes match a filter key and one is inside the other, the
\* operator of the filter is that of the longer suffix and the property is the
\* key without the longer suffix.
C11_LongerSuffixWins ==
    \A st \in Range(WhereKeySuffix) \X Range(WhereKeySuffix) :
        NestedSuffixRead(st) =>
            LET key == FilterEntries(req.queryParams)[1].key
            IN  res.query.wheres =
                    << [key |-> Column("entity",
                                    SubSeq(key, 1, Len(key) - Len(st[2]))),
                        operator |-> getRecordKeyByValue(whereOperatorKeySuffix, st[2]),
                        placeholder |-> ":value"] >>

\* C11 witness: a list read filtered on a key ending in _lte was served.
C11_Witness ==
    /\ res.outcome = "ok"
    /\ NestedSuffixRead(<<"_lt", "_lte">>)

\* Whether a filter's property name is that of a visible property: of the
\* entity, or, for relation.property, of the entity the relation leads to.
NamesVisibleProperty(entityManifest, propName) ==
    LET parts == StrSplit(propName, ".")
        visible(em, name) == \E x \in Range(em.properties) : x.name = name /\ ~x.hidden
    IN  IF Len(parts) = 1 THEN visible(entityManifest, propName)
        ELSE /\ Len(parts) = 2
             /\ \E r \in Range(entityManifest.relationships) :
                    /\ r.name = parts[1]
                    /\ visible(getEntityManifest(manifest, r.entity), parts[2])

\* The filter entries whose key ends in an operator suffix.
SuffixedFilters ==
    LET filters == FilterEntries(req.queryParams)
    IN  {filters[i] : i \in {j \in DOMAIN filters : TrailingSuffixes(filters[j].key) # {}}}

\* C12: a list read that is accepted has every filter on an existing visible
\* property, direct or through a relation path; one naming a hidden or unknown
\* property ends in BadRequest.
C12_FilterPropertiesExist ==
    (req.endpoint = "findAll" /\ res.outcome \notin {"RangeError", "SyntaxError"})
        => /\ res.outcome = "ok" =>
                \A e \in SuffixedFilters :
                    NamesVisibleProperty(RootManifest, StripTrailing(e.key))
           /\ (\E e \in SuffixedFilters :
                    ~NamesVisibleProperty(RootManifest, StripTrailing(e.key)))
                => res.outcome = "BadRequest"

\* A step in which request p's update persists.
UpdatePersists(p) ==
    /\ op[p].handler = "update"
    /\ pc[p] = "update_save"
    /\ pc'[p] = "done"

\* C13 as stated: the row an update persists (the one its save returns) has the
\* dto's value for every key the dto provides and, for every other property,
\* the value the update loaded.
C13_UpdateMergesDto ==
    [][\A p \in Procs :
        UpdatePersists(p) =>
            LET new == resp'[p].item
            IN  \A k \in DOMAIN new.f :
                    new.f[k] = IF k \in DOMAIN op[p].dto.f THEN op[p].dto.f[k]
                               ELSE loc[p].item.f[k]]_vars

\* C13 amended: the same for every key but the password of an authenticable
\* entity; an update of an id that has no row ends in NotFound and writes
\* nothing.
C13_UpdateMergesDtoExceptPassword ==
    [][\A p \in Procs :
        /\ UpdatePersists(p) =>
            LET className == ClassOf(op[p].entitySlug)
                new == resp'[p].item
            IN  /\ new \in db'[className]
                /\ \A k \in DOMAIN new.f :
                    (k = "password" /\ manifest[className].authenticable)
                    \/ new.f[k] = IF k \in DOMAIN op[p].dto.f THEN op[p].dto.f[k]
                                  ELSE loc[p].item.f[k]
        /\ (op'[p].handler = "update" /\ pc'[p] = "done" /\ ~loc'[p].found)
            => /\ resp'[p].status = "NotFound"
               /\ ~loc'[p].wrote
               /\ pc[p] = "update_fetch" => db' = db]_vars

\* C13 witness: an update whose dto carries the name and not the age has
\* persisted, and an update of an absent id has ended.
C13_Witness ==
    /\ \E p \in Procs :
        /\ op[p].handler = "update"
        /\ DOMAIN op[p].dto.f = {"name"}
        /\ loc[p].wrote
        /\ resp[p].status = "ok"
    /\ \E p \in Procs :
        /\ op[p].handler = "update"
        /\ pc[p] = "done"
        /\ ~loc[p].found

\* Whether a stored value is a SHA3 digest.
IsHash(s) == s # Null /\ StartsWith(s, "sha3:")

\* The rows of the authenticable entities.
AuthenticableRows ==
    UNION { db[e] : e \in {x \in Entities : manifest[x].authenticable} }

\* Whether request p's dto supplies a password.
SuppliesPassword(p) ==
    "password" \in DOMAIN op[p].dto.f /\ op[p].dto.f["password"] # ""

\* C14 as stated: every stored password of an authenticable entity is a hash.
C14_StoredPasswordIsHash ==
    \A row \in AuthenticableRows : IsHash(row.f["password"])

\* C14 amended: a stored password of an authenticable entity is a hash or
\* empty, and an update that supplies no password leaves it as it was.
C14_StoredPasswordIsHashOrEmpty ==
    /\ [](\A row \in AuthenticableRows :
            row.f["password"] \in {Null, ""} \/ IsHash(row.f["password"]))
    /\ [][\A p \in Procs :
            ( /\ UpdatePersists(p)
              /\ manifest[ClassOf(op[p].entitySlug)].authenticable
              /\ ~SuppliesPassword(p) )
            => LET className == ClassOf(op[p].entitySlug)
                   id == resp'[p].item.id
               IN  LoadRow(db', className, id).f["password"] =
                     IF RowExists(db, className, id)
                     THEN LoadRow(db, className, id).f["password"]
                     ELSE Null]_vars

\* C14 witness: a store that supplied a password and an update that supplied
\* none have both persisted on the authenticable entity.
C14_Witness ==
    \E p, q \in Procs :
        /\ op[p].handler = "store" /\ op[p].entitySlug = "owners"
        /\ SuppliesPassword(p) /\ loc[p].wrote
        /\ op[q].handler = "update" /\ op[q].entitySlug = "owners"
        /\ ~SuppliesPassword(q) /\ loc[q].wrote

\* The class of the single entity.
SingleClass == CHOOSE e \in Entities : manifest[e].single

\* C15: the table of a single entity never holds more than one row, and every
\* GET /singles/:entity that answers with an item answers with the row of id 1.
C15_SingleHasOneRow ==
    (\E e \in Entities : manifest[e].single) =>
        /\ Cardinality(db[SingleClass]) <= 1
        /\ \A p \in Procs :
            ( /\ op[p].handler = "singleFindOne"
              /\ pc[p] = "done"
              /\ resp[p].item # NoRow )
            => resp[p].item.id = 1

\* C20: a request whose service call threw ends with that error; GET
\* /singles/:entity answers with no empty success when findOne threw an error
\* other than NotFound.
C20_ErrorsAreSurfaced ==
    \A p \in Procs :
        (pc[p] = "done" /\ loc[p].thrown \notin {"", "NotFound"})
            => resp[p].status = loc[p].thrown

\* C16: a delete that found its item with no related item in any one-to-many
\* relation goes on to the delete statement and ends in success, and the
\* delete statement removes the row of that id and changes no other row of
\* any entity.
C16_DeleteRemovesOneRow ==
    /\ [](\A p \in Procs :
            (op[p].handler = "delete" /\ loc[p].found /\ loc[p].related = {})
                => /\ pc[p] \in {"delete_exec", "done"}
                   /\ pc[p] = "done" => (resp[p].status = "ok" /\ loc[p].wrote))
    /\ [][\A p \in Procs :
            (pc[p] = "delete_exec" /\ pc'[p] = "done")
                => LET className == ClassOf(op[p].entitySlug)
                   IN  /\ db'[className] =
                            {row \in db[className] : row.id # op[p].id}
                       /\ \A e \in Entities \ {className} : db'[e] = db[e]
                       /\ RowExists(db, className, op[p].id)
                            => Cardinality(db'[className]) =
                                    Cardinality(db[className]) - 1]_vars

\* C16 witness: a delete of an item without related items has removed its row.
C16_Witness ==
    \E p \in Procs :
        /\ op[p].handler = "delete"
        /\ loc[p].found /\ loc[p].related = {}
        /\ pc[p] = "done" /\ loc[p].wrote
        /\ ~RowExists(db, ClassOf(op[p].entitySlug), op[p].id)

\* Whether the request carries an orderBy with a value.
OrderByGiven ==
    HasParam(req.queryParams, "orderBy") /\ ParamValue(req.queryParams, "orderBy") # ""

C18_PageIsAtLeastOne ==
    (req.endpoint = "findAll" /\ res.outcome = "ok")
        => /\ res.page.currentPage >= 1
           /\ res.page.resultsPerPage =
                IF HasParam(req.queryParams, "perPage")
                   /\ ~parseInt(ParamValue(req.queryParams, "perPage")).nan
                THEN parseInt(ParamValue(req.queryParams, "perPage")).val
                ELSE DEFAULT_RESULTS_PER_PAGE

\* C19: a list read whose filter uses the in operator on a value that is no
\* well-formed list ends in BadRequest, with no page asked for.
C19_MalformedInListIsBadRequest ==
    LET filters == FilterEntries(req.queryParams)
    IN  ( /\ req.endpoint = "findAll"
          /\ res.outcome # "RangeError"
          /\ Len(filters) = 1
          /\ EndsWith(filters[1].key, "_in")
          /\ ~JsonListParses(filters[1].value) )
            => res.outcome = "BadRequest" /\ res.page = NoPage

\* C26: the save of update(entitySlug, id, dto) changes no row but the one of
\* the id argument: no other row of the entity is created, modified or
\* removed, no other entity's table changes, and the row persisted has the id
\* argument as its id.
C26_UpdateTouchesOnlyItsRow ==
    [][\A p \in Procs :
        UpdatePersists(p) =>
            LET className == ClassOf(op[p].entitySlug)
            IN  /\ {row \in db'[className] : row.id # op[p].id} =
                        {row \in db[className] : row.id # op[p].id}
                /\ \A e \in Entities \ {className} : db'[e] = db[e]
                /\ resp'[p].item.id = op[p].id]_vars

\* What update persists when it runs alone on the row it loaded: the merge,
\* the password step, and the save onto that row.
UpdateAlone(item, p) ==
    LET entityManifest == getEntityManifestBySlug(manifest, op[p].entitySlug)
        f == HashPassword(MergeDto(item, op[p].dto), entityManifest, op[p].dto, TRUE)
    IN  Row(item.id, f @@ item.f,
            IF loc[p].relationItems.given THEN loc[p].relationItems.owner
            ELSE item.owner)

\* Two updates of the same row that loaded the same item have both persisted.
UpdatedSameRow(p, q) ==
    /\ p # q
    /\ op[p].handler = "update" /\ op[q].handler = "update"
    /\ op[p].entitySlug = op[q].entitySlug /\ op[p].id = op[q].id
    /\ op[p].dto.id = 0 /\ op[q].dto.id = 0
    /\ pc[p] = "done" /\ pc[q] = "done"
    /\ loc[p].wrote /\ loc[q].wrote
    /\ loc[p].item = loc[q].item
    /\ calls = 2

\* C21: when two updates of the same row have both persisted, whatever the
\* interleaving of their loads and saves, the stored row is the one obtained by
\* running one update and then the other, in one of the two orders.
C21_ConcurrentUpdatesSerialized ==
    \A p, q \in Procs :
        UpdatedSameRow(p, q) =>
            LET item == loc[p].item
                final == LoadRow(db, ClassOf(op[p].entitySlug), op[p].id)
            IN  final \in { UpdateAlone(UpdateAlone(item, p), q),
                            UpdateAlone(UpdateAlone(item, q), p) }

\* The child rows whose foreign key names a parent row that storage does not
\* hold.
DanglingChildren ==
    {row \in db["Cat"] : row.owner # 0 /\ ~RowExists(db, "Owner", row.owner)}

\* C24: whatever the interleaving of a delete of a parent with a store or an
\* update that attaches a child to it, storage never holds a child row that
\* references a parent row that has been deleted.
C24_NoDanglingReference ==
    DanglingChildren = {}

\* C22: within one read query no two joins have the same alias: the aliases
\* built from parent alias and relation name are distinct for distinct
\* relation paths, a depth-one relation named as a deeper path reads included.
C22_JoinAliasesDistinct ==
    Served =>
        \A i, j \in DOMAIN res.query.joins :
            i # j => res.query.joins[i].alias # res.query.joins[j].alias

\* Two rows of the queried table, each with one related row, for reading a
\* built query on: their visible values are fixed, and h1, h2 are the values of
\* their hidden and password columns (root and related alike).
EvalRow(id, name, age, h) ==
    [id |-> id,
     f |-> [name |-> name, age |-> age, secret |-> h, password |-> h, pin |-> h],
     rel |-> [id |-> "1", name |-> "Ann", age |-> "7",
              secret |-> h, password |-> h, pin |-> h]]

EvalStorage(h1, h2) == <<EvalRow("1", "Tom", "3", h1), EvalRow("2", "Kit", "5", h2)>>

\* The join of the query that carries the alias, if any.
JoinOf(q, alias) == ArrFind(q.joins, LAMBDA j : j.alias = alias)

\* Whether the column names a column of the table its alias stands for.
ColumnKnown(q, column) ==
    LET alias == ColumnAlias(column)
        prop == ColumnProperty(column)
        names(em) == {x.name : x \in Range(em.properties)} \cup {"id"}
    IN  IF alias = "entity" THEN prop \in names(RootManifest)
        ELSE /\ JoinOf(q, alias) # Undefined
             /\ prop \in names(getEntityManifest(manifest,
                                    JoinTarget(q, JoinOf(q, alias))))

\* The value of a column in a row: of the row, of its related row for a join
\* made from the root, and a fixed value for the joins below.
ColumnValue(q, row, column) ==
    LET alias == ColumnAlias(column)
        prop == ColumnProperty(column)
    IN  IF alias = "entity"
        THEN (IF prop = "id" THEN row.id ELSE row.f[prop])
        ELSE IF JoinOf(q, alias).call = 1 THEN row.rel[prop]
        ELSE "-"

\* The order of the values in a sort.
ValueRank(v) ==
    LET order == <<"-", "1", "2", "3", "5", "7", "Ann", "Kit", "Tom", "x", "y">>
    IN  CHOOSE i \in DOMAIN order : order[i] = v

\* The rows in the order the query asks for (at most two rows).
Ordered(q, rows) ==
    IF Len(rows) < 2 \/ q.orderBy = <<>> THEN rows
    ELSE LET a == ValueRank(ColumnValue(q, rows[1], q.orderBy[1].sort))
             b == ValueRank(ColumnValue(q, rows[2], q.orderBy[1].sort))
             swap == IF q.orderBy[1].order = "DESC" THEN a < b ELSE b < a
         IN  IF swap THEN <<rows[2], rows[1]>> ELSE rows

\* What the query returns on a storage: the rows that pass its WHERE, in its
\* order, each as the values of the selected columns; nothing when the WHERE
\* names a column the query does not have (the statement fails).
ReadResult(q, storage) ==
    IF \E i \in DOMAIN q.wheres : ~ColumnKnown(q, q.wheres[i].key) THEN <<>>
    ELSE LET passes ==
                [r \in DOMAIN storage |->
                    \A i \in DOMAIN q.wheres :
                        Compare(q.wheres[i].operator,
                                ColumnValue(q, storage[r], q.wheres[i].key),
                                q.parameters[PlaceholderName(q.wheres[i].placeholder)])]
         IN  ArrMap(Ordered(q, ArrFilter(storage, passes)),
                    LAMBDA row : [i \in DOMAIN q.select |->
                                    ColumnValue(q, row, q.select[i])])

\* C25: a list read with fullVersion false returns the same result on two
\* storages that differ only in the values of hidden or password columns, of
\* the queried entity or of a related one, whatever the query parameters.
C25_HiddenValuesDoNotInterfere ==
    (req.endpoint = "findAll" /\ ~req.fullVersion /\ res.outcome = "ok")
        => ReadResult(res.query, EvalStorage("x", "y"))
                = ReadResult(res.query, EvalStorage("y", "x"))

\* The base template of an entity manifest.
BaseOf(entityManifest) ==
    IF entityManifest.authenticable THEN baseAuthenticableEntity ELSE baseEntity

\* C23: loadEntities returns one schema per manifest, named by className; its
\* columns are those of the base template plus one nullable column per
\* declared property, the identity column id is the base template's whatever
\* the property names are, and email is unique exactly when the manifest is
\* authenticable.
C23_SchemaPerManifest ==
    schemas # NotLoaded =>
        LET entityManifests == getEntityManifests(manifest)
        IN  /\ Len(schemas) = Len(entityManifests)
            /\ \A i \in DOMAIN entityManifests :
                LET em == entityManifests[i]
                    columns == schemas[i].columns
                    declared == {x.name : x \in Range(em.properties)}
                IN  /\ schemas[i].name = em.className
                    /\ DOMAIN columns = DOMAIN BaseOf(em) \cup declared
                    /\ \A k \in DOMAIN BaseOf(em) \ declared :
                            columns[k] = BaseOf(em)[k]
                    /\ \A x \in Range(em.properties) :
                            x.name # "id" =>
                                columns[x.name] =
                                    ColumnOptions(x.name, propTypeColumnTypes[x.type],
                                                  TRUE, FALSE)
                    /\ columns["id"] = BaseOf(em)["id"]
                    /\ (\E u \in Range(schemas[i].uniques) : u.columns = <<"email">>)
                            <=> em.authenticable

====
